---- MODULE Spec2Model ----
(***************************************************************************)
(* The "electricians" HTTP service (src/main.go, and its earlier variant   *)
(* src/unnamed/part_000) together with the token package it authenticates  *)
(* with (src/unnamed/part_001).                                            *)
(*                                                                         *)
(* Go strings are sequences: an identifier or a name is a sequence of      *)
(* one-character strings, an Authorization header value is a sequence of   *)
(* atoms (the literal "Bearer " prefix, one compact JWT, or other text).   *)
(* A JSON value is a record [t, v] with t its JSON type.                   *)
(***************************************************************************)
EXTENDS Integers, Sequences, FiniteSets, TLC

VARIABLES now, variant, store, nextOid, sessions, slot, created, gen, ver

vars == <<now, variant, store, nextOid, sessions, slot, created, gen, ver>>

(***************************************************************************)
(* Bounds of the model.                                                    *)
(***************************************************************************)
MaxNow == 129600
MaxOid == 3
MaxReq == 3

(***************************************************************************)
(* Program constants.                                                      *)
(***************************************************************************)
ValidityWindow == 86400
OidLen == 12
DefaultSkip == 0
DefaultLimit == 10
StatusOK == 200
StatusCreated == 201
StatusBadRequest == 400
StatusNotFound == 404
StatusInternalServerError == 500

TickStep == ValidityWindow \div 2

Min(a, b) == IF a < b THEN a ELSE b

(***************************************************************************)
(* Characters, hexadecimal text and bson.ObjectId.                         *)
(***************************************************************************)
HexChars == <<"0", "1", "2", "3", "4", "5", "6", "7", "8", "9", "a", "b", "c", "d", "e", "f">>

IsHexChar(c) == \E k \in 1..16 : HexChars[k] = c

HexVal(c) == (CHOOSE k \in 1..16 : HexChars[k] = c) - 1

\* fmt.Sprintf("%x", string(id)): two lower-case hex digits per byte.
HexEncode(b) == [i \in 1..(2 * Len(b)) |-> IF i % 2 = 1 THEN HexChars[(b[(i + 1) \div 2] \div 16) + 1] ELSE HexChars[(b[(i + 1) \div 2] % 16) + 1]]

\* hex.Decode of an even-length string of hex digits.
HexDecode(s) == [i \in 1..(Len(s) \div 2) |-> 16 * HexVal(s[2 * i - 1]) + HexVal(s[2 * i])]

\* bson.IsObjectIdHex: 24 hex digits.
IsObjectIdHex(s) == Len(s) = 2 * OidLen /\ \A i \in 1..Len(s) : IsHexChar(s[i])

\* The ObjectId bson.NewObjectId returns on its n-th call: 12 bytes ending in
\* the process counter.
OidOf(n) == [i \in 1..OidLen |-> IF i = OidLen THEN n ELSE IF i = 1 THEN 90 ELSE 0]

\* An identifier this process never generated (another machine's).
ForeignOid == [i \in 1..OidLen |-> IF i = 1 THEN 17 ELSE 0]

EmptyOid == <<>>

(***************************************************************************)
(* JSON values.                                                            *)
(***************************************************************************)
JAbsent == [t |-> "absent", v |-> 0]
JNull == [t |-> "null", v |-> 0]
JStr(s) == [t |-> "string", v |-> s]
JNum(n) == [t |-> "number", v |-> n]

\* A lookup in a decoded map[string]interface{} is nil for a missing key and
\* for a JSON null.
IsNil(j) == j.t \in {"absent", "null"}

(***************************************************************************)
(* Tokens.  A compact JWT is one atom: the algorithm of its header, the    *)
(* key its signature was made with, and its claims.                        *)
(***************************************************************************)
Secret == "JWT_SIGNER_SECRET"
OtherSecret == "another secret"
HMACAlgs == {"HS256", "HS384", "HS512"}

NoClaims == [id |-> JAbsent, email |-> JAbsent, permissionLevel |-> JAbsent, exp |-> JAbsent]
BearerPrefix == [kind |-> "Bearer ", alg |-> "", key |-> "", claims |-> NoClaims]
OtherText == [kind |-> "text", alg |-> "", key |-> "", claims |-> NoClaims]
Jwt(alg, key, claims) == [kind |-> "jwt", alg |-> alg, key |-> key, claims |-> claims]

\* strings.TrimPrefix(s, "Bearer ")
TrimPrefix(s) == IF Len(s) > 0 /\ s[1].kind = "Bearer " THEN Tail(s) ELSE s

\* The zero value of UserPersistentData, and of Signed.
ZeroUser == [ID |-> <<>>, PermissionLevel |-> 0]
ZeroSigned == [TokenString |-> <<>>, Expires |-> 0]

\* jwt.MapClaims.Valid at time t: an exp claim that is a number must not be
\* in the past; a token without one never expires.
ClaimsValid(c, t) == c.exp.t = "number" => t <= c.exp.v

\* jwt.Parse with FromHeader's key function, at time t.
jwtParse(s, t) ==
  IF Len(s) # 1 \/ s[1].kind # "jwt" THEN [err |-> "token contains an invalid number of segments", valid |-> FALSE, claims |-> NoClaims]
  ELSE IF s[1].alg \notin HMACAlgs THEN [err |-> "Unexpected signing method", valid |-> FALSE, claims |-> s[1].claims]
  ELSE IF ~ClaimsValid(s[1].claims, t) THEN [err |-> "Token is expired", valid |-> FALSE, claims |-> s[1].claims]
  ELSE IF s[1].key # Secret THEN [err |-> "signature is invalid", valid |-> FALSE, claims |-> s[1].claims]
  ELSE [err |-> "", valid |-> TRUE, claims |-> s[1].claims]

\* Generate with the validity window left out of the expiration.
GenerateWithoutWindow(id, email, permissionLevel, t) ==
  LET expires == t
      claims == [id |-> JStr(HexEncode(id)), email |-> JStr(email), permissionLevel |-> JNum(permissionLevel), exp |-> JNum(expires)]
  IN [s |-> [TokenString |-> <<Jwt("HS256", Secret, claims)>>, Expires |-> expires], err |-> ""]

\* Generate at time t.  The id is marshalled as its hex text, the permission
\* level as a JSON number.
Generate(id, email, permissionLevel, t) ==
  LET expires == t + ValidityWindow
      claims == [id |-> JStr(HexEncode(id)), email |-> JStr(email), permissionLevel |-> JNum(permissionLevel), exp |-> JNum(expires)]
  IN [s |-> [TokenString |-> <<Jwt("HS256", Secret, claims)>>, Expires |-> expires], err |-> ""]

\* populatePersistentObjectWithTokenData without its check for a missing
\* permissionLevel claim.
populateWithoutLevelCheck(claims) ==
  IF IsNil(claims.id) THEN [kind |-> "err", msg |-> "No id claim in token", u |-> ZeroUser]
  ELSE IF claims.id.t # "string" THEN [kind |-> "panic", msg |-> "interface conversion: not string", u |-> ZeroUser]
  ELSE IF claims.permissionLevel.t # "number" THEN [kind |-> "panic", msg |-> "interface conversion: not float64", u |-> ZeroUser]
  ELSE [kind |-> "ok", msg |-> "", u |-> [ID |-> claims.id.v, PermissionLevel |-> claims.permissionLevel.v]]

\* The result is a returned value ("ok", "err") or a run-time panic of a
\* failed type assertion.
populatePersistentObjectWithTokenData(claims) ==
  IF IsNil(claims.id) THEN [kind |-> "err", msg |-> "No id claim in token", u |-> ZeroUser]
  ELSE IF IsNil(claims.permissionLevel) THEN [kind |-> "err", msg |-> "No permissionLevel claim in token", u |-> ZeroUser]
  ELSE IF claims.id.t # "string" THEN [kind |-> "panic", msg |-> "interface conversion: not string", u |-> ZeroUser]
  ELSE IF claims.permissionLevel.t # "number" THEN [kind |-> "panic", msg |-> "interface conversion: not float64", u |-> ZeroUser]
  ELSE [kind |-> "ok", msg |-> "", u |-> [ID |-> claims.id.v, PermissionLevel |-> claims.permissionLevel.v]]

\* FromHeader on the header's values h at time t.
FromHeader(h, t) ==
  LET token == IF Len(h) > 0 THEN TrimPrefix(h[1]) ELSE <<>>
      parsed == jwtParse(token, t)
  IN IF token = <<>> THEN [kind |-> "err", msg |-> "No token found", u |-> ZeroUser]
     ELSE IF parsed.err # "" THEN [kind |-> "err", msg |-> parsed.err, u |-> ZeroUser]
     ELSE IF parsed.valid THEN populatePersistentObjectWithTokenData(parsed.claims)
     ELSE [kind |-> "err", msg |-> "Invalid token", u |-> ZeroUser]

(***************************************************************************)
(* Text: ordering and case folding of the characters names are made of, in *)
(* code-point order.                                                       *)
(***************************************************************************)
Alphabet == <<"A", "J", "a", "j", "l", "o", "x">>

CharCode(c) == CHOOSE k \in 1..Len(Alphabet) : Alphabet[k] = c

ToLower(c) == IF c = "A" THEN "a" ELSE IF c = "J" THEN "j" ELSE c

RECURSIVE StrLess(_, _)
StrLess(a, b) ==
  IF b = <<>> THEN FALSE
  ELSE IF a = <<>> THEN TRUE
  ELSE IF CharCode(a[1]) # CharCode(b[1]) THEN CharCode(a[1]) < CharCode(b[1])
  ELSE StrLess(Tail(a), Tail(b))

\* The regular expression "^" + hint with option "i".
HasPrefixFold(name, hint) == Len(hint) <= Len(name) /\ \A i \in 1..Len(hint) : ToLower(name[i]) = ToLower(hint[i])

IsDigit(c) == \E k \in 1..10 : HexChars[k] = c

RECURSIVE DecimalValue(_)
DecimalValue(s) == IF s = <<>> THEN 0 ELSE 10 * DecimalValue(SubSeq(s, 1, Len(s) - 1)) + HexVal(s[Len(s)])

\* strconv.ParseInt(s, 10, 64) on unsigned decimal text.
ParseInt(s) ==
  IF s # <<>> /\ \A i \in 1..Len(s) : IsDigit(s[i]) THEN [err |-> FALSE, i |-> DecimalValue(s)]
  ELSE [err |-> TRUE, i |-> 0]

(***************************************************************************)
(* Responses.                                                              *)
(***************************************************************************)
NoResponse == [status |-> 0, t |-> "none", message |-> "", records |-> <<>>]

errorWithJSON(err, code) == [status |-> code, t |-> "message", message |-> err, records |-> <<>>]

responseWithJSON(t, message, records, code) == [status |-> code, t |-> t, message |-> message, records |-> records]

\* json.Marshal of an electrician: the identifier is written as hex text.
MarshalElectrician(e) == [id |-> HexEncode(e.ID), name |-> e.Name]

MarshalAll(es) == [i \in 1..Len(es) |-> MarshalElectrician(es[i])]

(***************************************************************************)
(* The document store: the collection's documents in natural order, with  *)
(* a unique ID each.                                                       *)
(***************************************************************************)
HasId(st, id) == \E i \in 1..Len(st) : st[i].ID = id

\* The identifier the database gives the n-th document inserted without one.
ServerOid(n) == [i \in 1..OidLen |-> IF i = OidLen THEN n ELSE IF i = 1 THEN 91 ELSE 0]

\* c.Insert: the ID field is omitted when empty and the database then
\* assigns one; an ID already in the collection is a duplicate-key error.
Insert(st, e, n) ==
  IF e.ID = EmptyOid THEN [err |-> FALSE, store |-> Append(st, [ID |-> ServerOid(n), Name |-> e.Name])]
  ELSE IF HasId(st, e.ID) THEN [err |-> TRUE, store |-> st]
  ELSE [err |-> FALSE, store |-> Append(st, e)]

\* c.RemoveId
RemoveId(st, id) ==
  IF HasId(st, id) THEN [err |-> "", store |-> SelectSeq(st, LAMBDA e : e.ID # id)]
  ELSE [err |-> "not found", store |-> st]

RECURSIVE InsertByName(_, _)
InsertByName(sorted, e) ==
  IF sorted = <<>> THEN <<e>>
  ELSE IF StrLess(e.Name, sorted[1].Name) THEN <<e>> \o sorted
  ELSE <<sorted[1]>> \o InsertByName(Tail(sorted), e)

\* Sort("name"): ascending by name, documents of equal names in natural order.
RECURSIVE SortByName(_)
SortByName(es) == IF es = <<>> THEN <<>> ELSE InsertByName(SortByName(SubSeq(es, 1, Len(es) - 1)), es[Len(es)])

\* Find(query).Skip(skip).Limit(limit).Sort("name").All
FindPage(st, hint, skip, limit) ==
  LET matching == IF hint = <<>> THEN st ELSE SelectSeq(st, LAMBDA e : HasPrefixFold(e.Name, hint))
      sorted == SortByName(matching)
  IN SubSeq(sorted, skip + 1, Min(skip + limit, Len(sorted)))

(***************************************************************************)
(* Sessions: 0 is the session main dialled, r the copy request r makes.    *)
(***************************************************************************)
BaseSession == 0

Req == 1..MaxReq

\* The handler using the dialled session itself instead of a copy.
CopyOfNothing(r) == BaseSession

\* session := s.Copy() in the handler serving request r
CopyOf(r) == r

sessionCopy(ss, sid) == [ss EXCEPT ![sid] = "open"]

\* defer session.Close()
sessionClose(ss, sid) == [ss EXCEPT ![sid] = "closed"]

(***************************************************************************)
(* The middleware and the handlers, as functions of the request and the    *)
(* store.                                                                  *)
(***************************************************************************)
NoHeader == [present |-> FALSE, values |-> <<>>]
Header(values) == [present |-> TRUE, values |-> values]

isAuthenticated(hdr, t) ==
  LET res == FromHeader(hdr.values, t)
  IN IF ~hdr.present THEN [invoked |-> FALSE, resp |-> errorWithJSON("No auth header found", StatusBadRequest), u |-> ZeroUser]
     ELSE IF res.kind = "err" THEN [invoked |-> FALSE, resp |-> errorWithJSON(res.msg, StatusBadRequest), u |-> ZeroUser]
     ELSE IF res.kind = "panic" THEN [invoked |-> FALSE, resp |-> NoResponse, u |-> ZeroUser]
     ELSE [invoked |-> TRUE, resp |-> NoResponse, u |-> res.u]

\* decoder.Decode(&electrician): bson.ObjectId's UnmarshalJSON takes "" and
\* null as the empty identifier and 24 hex digits as an identifier; a key
\* the body lacks leaves the field as it was.
Decode(body, e) ==
  IF ~body.ok THEN [err |-> TRUE, e |-> e]
  ELSE IF body.id.t = "absent" THEN [err |-> FALSE, e |-> [ID |-> e.ID, Name |-> body.name]]
  ELSE IF body.id.t = "null" THEN [err |-> FALSE, e |-> [ID |-> EmptyOid, Name |-> body.name]]
  ELSE IF body.id.t # "string" THEN [err |-> TRUE, e |-> e]
  ELSE IF body.id.v = <<>> THEN [err |-> FALSE, e |-> [ID |-> EmptyOid, Name |-> body.name]]
  ELSE IF IsObjectIdHex(body.id.v) THEN [err |-> FALSE, e |-> [ID |-> HexDecode(body.id.v), Name |-> body.name]]
  ELSE [err |-> TRUE, e |-> e]

listAll(st, dbOk) ==
  IF ~dbOk THEN [store |-> st, resp |-> errorWithJSON("Database error", StatusInternalServerError)]
  ELSE [store |-> st, resp |-> responseWithJSON("array", "", MarshalAll(st), StatusOK)]

search(q, st, dbOk) ==
  LET skipParsed == ParseInt(q.skip.v)
      limitParsed == ParseInt(q.limit.v)
      Skip == IF q.skip.present THEN skipParsed.i ELSE DefaultSkip
      Limit == IF q.limit.present /\ q.skip.present THEN limitParsed.i ELSE DefaultLimit
      Hint == IF q.hint.present THEN q.hint.v ELSE <<>>
  IN IF q.skip.present /\ skipParsed.err THEN [store |-> st, resp |-> NoResponse]
     ELSE IF q.limit.present /\ q.skip.present /\ limitParsed.err THEN [store |-> st, resp |-> NoResponse]
     ELSE IF ~dbOk THEN [store |-> st, resp |-> responseWithJSON("null", "", <<>>, StatusOK)]
     ELSE [store |-> st, resp |-> responseWithJSON("array", "", MarshalAll(FindPage(st, Hint, Skip, Limit)), StatusOK)]

\* create inserting before it looks at the decoder's error.
createInsertFirst(v, body, st, n, dbOk) ==
  LET fresh == IF v = "main" THEN [ID |-> OidOf(n), Name |-> <<>>] ELSE [ID |-> EmptyOid, Name |-> <<>>]
      d == Decode(body, fresh)
      ins == Insert(st, d.e, n)
  IN IF ~dbOk \/ ins.err THEN [store |-> st, resp |-> errorWithJSON("Database error", StatusInternalServerError)]
     ELSE IF d.err THEN [store |-> ins.store, resp |-> errorWithJSON("Icorrect body", StatusBadRequest)]
     ELSE [store |-> ins.store, resp |-> responseWithJSON("object", "", <<MarshalElectrician(d.e)>>, StatusCreated)]

\* n is the number of the bson.NewObjectId call this request makes.
create(v, body, st, n, dbOk) ==
  LET fresh == IF v = "main" THEN [ID |-> OidOf(n), Name |-> <<>>] ELSE [ID |-> EmptyOid, Name |-> <<>>]
      d == Decode(body, fresh)
      ins == Insert(st, d.e, n)
  IN IF d.err THEN [store |-> st, resp |-> errorWithJSON("Icorrect body", StatusBadRequest)]
     ELSE IF ~dbOk \/ ins.err THEN [store |-> st, resp |-> errorWithJSON("Database error", StatusInternalServerError)]
     ELSE [store |-> ins.store, resp |-> responseWithJSON("object", "", <<MarshalElectrician(d.e)>>, StatusCreated)]

\* bson.ObjectIdHex panics on text that is not 24 hex digits.
delete(id, st, dbOk) ==
  LET rm == RemoveId(st, HexDecode(id))
  IN IF ~IsObjectIdHex(id) THEN [store |-> st, resp |-> NoResponse]
     ELSE IF ~dbOk THEN [store |-> st, resp |-> errorWithJSON("Database error", StatusInternalServerError)]
     ELSE IF rm.err # "" THEN [store |-> st, resp |-> errorWithJSON("Electrician not found", StatusNotFound)]
     ELSE [store |-> rm.store, resp |-> responseWithJSON("message", "electrician_deleted", <<>>, StatusOK)]

(***************************************************************************)
(* Requests.  A request in flight holds a slot: "open" once its handler    *)
(* has copied the session, "deferred" once the handler's body has run and  *)
(* its deferred Close is pending, "done" when the handler has returned.    *)
(***************************************************************************)
NoSession == 0 - 1
NoBody == [ok |-> FALSE, id |-> JAbsent, name |-> <<>>]
NoParam == [present |-> FALSE, v |-> <<>>]
Param(v) == [present |-> TRUE, v |-> v]
NoQuery == [skip |-> NoParam, limit |-> NoParam, hint |-> NoParam]
NoInput == [body |-> NoBody, id |-> <<>>, q |-> NoQuery]
IdleSlot == [pc |-> "idle", route |-> "", hdr |-> NoHeader, at |-> 0, invoked |-> FALSE, input |-> NoInput, dbOk |-> TRUE, resp |-> NoResponse, session |-> NoSession, u |-> ZeroUser]

\* The routes main registers, and those it wraps in isAuthenticated.
Routes(v) == IF v = "main" THEN {"list", "search", "create", "delete"} ELSE {"list", "create"}
Protected(route) == route \in {"create", "delete"}

Init ==
  /\ now = 0
  /\ variant \in {"main", "basic"}
  /\ store = <<>>
  /\ nextOid = 1
  /\ sessions = [s \in {BaseSession} \cup Req |-> IF s = BaseSession THEN "open" ELSE "none"]
  /\ slot = [r \in Req |-> IdleSlot]
  /\ created = <<>>
  /\ gen = [called |-> FALSE, id |-> EmptyOid, email |-> <<>>, permissionLevel |-> 0, at |-> 0, out |-> ZeroSigned]
  /\ ver = [called |-> FALSE, h |-> <<>>, at |-> 0, res |-> [kind |-> "err", msg |-> "", u |-> ZeroUser]]

\* Time passes.
Tick ==
  /\ now + TickStep <= MaxNow
  /\ now' = now + TickStep
  /\ UNCHANGED <<variant, store, nextOid, sessions, slot, created, gen, ver>>

\* The router hands request r to its route: through isAuthenticated when the
\* route is protected, and then into the handler, which copies the session.
Request(r, route, hdr, input) ==
  /\ slot[r].pc \in {"idle", "done"}
  /\ route \in Routes(variant)
  /\ LET a == IF Protected(route) THEN isAuthenticated(hdr, now) ELSE [invoked |-> TRUE, resp |-> NoResponse, u |-> ZeroUser]
     IN /\ slot' = [slot EXCEPT ![r] = [pc |-> IF a.invoked THEN "open" ELSE "done", route |-> route, hdr |-> hdr, at |-> now, invoked |-> a.invoked, input |-> input, dbOk |-> TRUE, resp |-> a.resp, session |-> IF a.invoked THEN CopyOf(r) ELSE NoSession, u |-> a.u]]
        /\ sessions' = IF a.invoked THEN sessionCopy(sessions, CopyOf(r)) ELSE sessions
  /\ UNCHANGED <<now, variant, store, nextOid, created, gen, ver>>

\* The body of a handler runs: one call on the store, then the response (or
\* a panic, which leaves none).
Respond(r, out, dbOk) ==
  /\ store' = out.store
  /\ slot' = [slot EXCEPT ![r].pc = "deferred", ![r].resp = out.resp, ![r].dbOk = dbOk]

HandleListAll(r) ==
  /\ slot[r].pc = "open" /\ slot[r].route = "list"
  /\ \E dbOk \in BOOLEAN : Respond(r, listAll(store, dbOk), dbOk)
  /\ UNCHANGED <<now, variant, nextOid, sessions, created, gen, ver>>

HandleSearch(r) ==
  /\ slot[r].pc = "open" /\ slot[r].route = "search"
  /\ \E dbOk \in BOOLEAN : Respond(r, search(slot[r].input.q, store, dbOk), dbOk)
  /\ UNCHANGED <<now, variant, nextOid, sessions, created, gen, ver>>

HandleCreate(r) ==
  /\ slot[r].pc = "open" /\ slot[r].route = "create"
  /\ nextOid <= MaxOid
  /\ \E dbOk \in BOOLEAN :
       LET out == create(variant, slot[r].input.body, store, nextOid, dbOk)
       IN /\ Respond(r, out, dbOk)
          /\ created' = IF out.resp.status = StatusCreated THEN Append(created, out.resp.records[1].id) ELSE created
  /\ nextOid' = nextOid + 1
  /\ UNCHANGED <<now, variant, sessions, gen, ver>>

HandleDelete(r) ==
  /\ slot[r].pc = "open" /\ slot[r].route = "delete"
  /\ \E dbOk \in BOOLEAN : Respond(r, delete(slot[r].input.id, store, dbOk), dbOk)
  /\ UNCHANGED <<now, variant, nextOid, sessions, created, gen, ver>>

\* The handler returns (or unwinds from a panic): its deferred Close runs.
Finish(r) ==
  /\ slot[r].pc = "deferred"
  /\ sessions' = sessionClose(sessions, slot[r].session)
  /\ slot' = [slot EXCEPT ![r].pc = "done"]
  /\ UNCHANGED <<now, variant, store, nextOid, created, gen, ver>>

(***************************************************************************)
(* The requests considered.                                                *)
(***************************************************************************)
Hex1 == HexEncode(OidOf(1))
NameJa == <<"J", "a">>
NameAl == <<"A", "l">>

\* A token the auth service issued at time 0, and forged or damaged ones.
IssuedToken == Generate(OidOf(1), <<"a">>, 1, 0).s.TokenString[1]
IssuedClaims == IssuedToken.claims

ServiceTokens ==
  { IssuedToken,
    Jwt("HS256", OtherSecret, IssuedClaims),
    Jwt("RS256", Secret, IssuedClaims),
    Jwt("HS256", Secret, [IssuedClaims EXCEPT !.id = JNum(5)]),
    Jwt("HS256", Secret, [IssuedClaims EXCEPT !.permissionLevel = JAbsent]) }

ServiceHeaders ==
  {NoHeader, Header(<<>>), Header(<< <<>> >>), Header(<< <<BearerPrefix>> >>), Header(<< <<OtherText>> >>)}
    \cup {Header(<< <<BearerPrefix, t>> >>) : t \in ServiceTokens}
    \cup {Header(<< <<t>> >>) : t \in {IssuedToken}}

GoodHeader == Header(<< <<BearerPrefix, IssuedToken>> >>)

PlainBody == [ok |-> TRUE, id |-> JAbsent, name |-> NameJa]

Bodies ==
  {NoBody, PlainBody, [PlainBody EXCEPT !.name = NameAl]}
    \cup {[PlainBody EXCEPT !.id = j] : j \in {JStr(<<>>), JStr(Hex1), JNum(5)}}

PathIds == {Hex1, HexEncode(OidOf(2)), <<"x">>}

Queries == {[skip |-> s, limit |-> l, hint |-> h] : s \in {NoParam, Param(<<"1">>), Param(<<"x">>)}, l \in {NoParam, Param(<<"1">>)}, h \in {NoParam, Param(<<"j">>)}}

GetList(r) == Request(r, "list", NoHeader, NoInput)

GetSearch(r, qs) == \E q \in qs : Request(r, "search", NoHeader, [NoInput EXCEPT !.q = q])

PostCreate(r, hdrs, bodies) == \E hdr \in hdrs, body \in bodies : Request(r, "create", hdr, [NoInput EXCEPT !.body = body])

DeleteId(r, hdrs, ids) == \E hdr \in hdrs, id \in ids : Request(r, "delete", hdr, [NoInput EXCEPT !.id = id])

\* The handlers, one request at a time, for callers without a header and
\* callers holding an issued token.
Next ==
  \/ GetList(1)
  \/ GetSearch(1, Queries)
  \/ PostCreate(1, {NoHeader, GoodHeader}, Bodies)
  \/ DeleteId(1, {NoHeader, GoodHeader}, PathIds)
  \/ HandleListAll(1)
  \/ HandleSearch(1)
  \/ HandleCreate(1)
  \/ HandleDelete(1)
  \/ Finish(1)

Spec == Init /\ [][Next]_vars

\* The middleware on the protected routes, under every header and as time
\* passes.
NextAuth ==
  \/ Tick
  \/ PostCreate(1, ServiceHeaders, {NoBody, PlainBody})
  \/ DeleteId(1, ServiceHeaders, {Hex1})
  \/ HandleCreate(1)
  \/ HandleDelete(1)
  \/ Finish(1)

SpecAuth == Init /\ [][NextAuth]_vars

\* MaxReq concurrent requests to the four routes of src/main.go, each slot
\* serving one: requests that succeed, ones answered an error and ones
\* whose handler panics.
Arrive(r) ==
  /\ slot[r].pc = "idle"
  /\ \/ GetList(r)
     \/ GetSearch(r, {[NoQuery EXCEPT !.skip = Param(<<"x">>)]})
     \/ PostCreate(r, {GoodHeader}, {NoBody, PlainBody})
     \/ DeleteId(r, {NoHeader, GoodHeader}, {Hex1})

NextConc ==
  \E r \in Req :
    \/ Arrive(r)
    \/ HandleListAll(r)
    \/ HandleSearch(r)
    \/ HandleCreate(r)
    \/ HandleDelete(r)
    \/ Finish(r)

InitConc == Init /\ variant = "main"

SpecConc == InitConc /\ [][NextConc]_vars

(***************************************************************************)
(* The token package on its own: Generate and FromHeader applied to        *)
(* issued, forged and damaged tokens as time passes.                       *)
(***************************************************************************)
CraftedClaims ==
  {[id |-> i, email |-> JStr(<<"a">>), permissionLevel |-> p, exp |-> e] : i \in {JAbsent, JStr(Hex1), JNum(5)}, p \in {JNull, JNum(1), JStr(<<"1">>)}, e \in {JAbsent, JNum(TickStep)}}

CraftedTokens == {Jwt(a, k, c) : a \in {"HS256", "RS256"}, k \in {Secret, OtherSecret}, c \in CraftedClaims}

CraftedHeaders ==
  {<<>>, << <<>> >>, << <<BearerPrefix>> >>, << <<OtherText>> >>, << <<BearerPrefix, OtherText>> >>}
    \cup {<< <<BearerPrefix, t>> >> : t \in CraftedTokens}
    \cup {<< <<Jwt("HS256", Secret, c)>> >> : c \in CraftedClaims}

\* The header values that carry the token Generate last returned.
IssuedHeaders == IF gen.called THEN {<<gen.out.TokenString>>, << <<BearerPrefix>> \o gen.out.TokenString >>} ELSE {}

DoGenerate ==
  /\ \E id \in {OidOf(1), ForeignOid}, email \in {<<"a">>}, p \in {0, 7} :
       gen' = [called |-> TRUE, id |-> id, email |-> email, permissionLevel |-> p, at |-> now, out |-> Generate(id, email, p, now).s]
  /\ UNCHANGED <<now, variant, store, nextOid, sessions, slot, created, ver>>

DoFromHeader ==
  /\ \E h \in CraftedHeaders \cup IssuedHeaders :
       ver' = [called |-> TRUE, h |-> h, at |-> now, res |-> FromHeader(h, now)]
  /\ UNCHANGED <<now, variant, store, nextOid, sessions, slot, created, gen>>

NextToken == Tick \/ DoGenerate \/ DoFromHeader

InitToken == Init /\ variant = "main"

SpecToken == InitToken /\ [][NextToken]_vars

(***************************************************************************)
(* Properties.                                                             *)
(***************************************************************************)
\* The JWT a header's first value presents, bare or after "Bearer ".
Carries(h, tok) == Len(h) > 0 /\ (h[1] = <<tok>> \/ h[1] = <<BearerPrefix, tok>>)

PresentedTokens(h) == IF Len(h) > 0 /\ Len(h[1]) > 0 /\ h[1][Len(h[1])].kind = "jwt" /\ Carries(h, h[1][Len(h[1])]) THEN {h[1][Len(h[1])]} ELSE {}

Expired(tok, t) == tok.claims.exp.t = "number" /\ tok.claims.exp.v < t

\* A request slot r holds on a protected route.
Gated(r) == slot[r].pc # "idle" /\ Protected(slot[r].route)

\* C1: on a protected route the wrapped handler is invoked if and only if
\* FromHeader succeeds on the request's Authorization header, and a request
\* whose handler is not invoked gets an error response written.
ClaimC1 ==
  \A r \in Req : Gated(r) =>
    /\ slot[r].invoked <=> (slot[r].hdr.present /\ FromHeader(slot[r].hdr.values, slot[r].at).kind = "ok")
    /\ ~slot[r].invoked => slot[r].resp.t = "message" /\ slot[r].resp.status >= StatusBadRequest

FailingCase(h, t) ==
  \/ h = <<>>
  \/ h[1] = <<>>
  \/ h[1] = <<BearerPrefix>>
  \/ \E tok \in PresentedTokens(h) :
       \/ tok.key # Secret
       \/ Expired(tok, t)
       \/ tok.alg \notin HMACAlgs
       \/ IsNil(tok.claims.id)
       \/ IsNil(tok.claims.permissionLevel)

\* C2: FromHeader returns an error and the zero UserPersistentData for an
\* absent or empty token string and for a token signed with another secret,
\* expired, of a non-HMAC algorithm, or lacking the id or permissionLevel
\* claim.
TheoremC2 == (ver.called /\ FailingCase(ver.h, ver.at)) => (ver.res.kind = "err" /\ ver.res.msg # "" /\ ver.res.u = ZeroUser)

\* A correctly signed, unexpired token that only lacks permissionLevel was
\* refused with an error.
WitnessC2 ==
  /\ ver.called
  /\ \E tok \in PresentedTokens(ver.h) : tok.key = Secret /\ tok.alg = "HS256" /\ ~Expired(tok, ver.at) /\ tok.claims.id.t = "string" /\ IsNil(tok.claims.permissionLevel)
  /\ ver.res.kind = "err"

WrongTypeCase(h, t) ==
  \E tok \in PresentedTokens(h) :
    /\ tok.key = Secret /\ tok.alg \in HMACAlgs /\ ~Expired(tok, t)
    /\ ~IsNil(tok.claims.id) /\ ~IsNil(tok.claims.permissionLevel)
    /\ (tok.claims.id.t # "string" \/ tok.claims.permissionLevel.t # "number")

\* C3: for a correctly signed, unexpired token whose id claim is not a string
\* or whose permissionLevel claim is not a number, FromHeader returns an
\* error as a value: it neither succeeds nor panics.
ClaimC3 == (ver.called /\ WrongTypeCase(ver.h, ver.at)) => ver.res.kind = "err"

\* FromHeader was applied, not after its expiration, to the token Generate
\* last returned.
RoundTrip == gen.called /\ ver.called /\ ver.h \in IssuedHeaders /\ ver.at <= gen.out.Expires

\* C4 as claimed: Generate then FromHeader returns the subject id, the email
\* and the permission level that were given, and the expiration is the
\* issuance time plus 24 hours.
ClaimC4 ==
  RoundTrip =>
    /\ ver.res.kind = "ok"
    /\ HexDecode(ver.res.u.ID) = gen.id
    /\ "Email" \in DOMAIN ver.res.u /\ ver.res.u.Email = gen.email
    /\ ver.res.u.PermissionLevel = gen.permissionLevel
    /\ gen.out.Expires = gen.at + ValidityWindow

\* C4 as the code has it: Generate then FromHeader succeeds and returns the
\* subject id as its 24 hex digits and the permission level, and nothing
\* else (no email); the expiration is the issuance time plus 24 hours.
TheoremC4 ==
  RoundTrip =>
    /\ ver.res.kind = "ok"
    /\ DOMAIN ver.res.u = {"ID", "PermissionLevel"}
    /\ Len(ver.res.u.ID) = 2 * OidLen /\ HexDecode(ver.res.u.ID) = gen.id
    /\ ver.res.u.PermissionLevel = gen.permissionLevel
    /\ gen.out.Expires = gen.at + ValidityWindow

\* A token for permission level 7 was verified some time after it was issued.
WitnessC4 == RoundTrip /\ ver.at > gen.at /\ gen.permissionLevel = 7 /\ gen.id = ForeignOid /\ ver.res.kind = "ok"

BearerScheme(hdr) == hdr.present /\ Len(hdr.values) > 0 /\ Len(hdr.values[1]) >= 2 /\ hdr.values[1][1] = BearerPrefix

\* C5: a request whose Authorization header is absent, empty or not of the
\* form "Bearer <token>" is answered 401 and its handler is not invoked.
ClaimC5 == \A r \in Req : (Gated(r) /\ ~BearerScheme(slot[r].hdr)) => (~slot[r].invoked /\ slot[r].resp.status = 401)

\* Request r's handler body runs in this step (route is its route).
Handled(r, route) == slot[r].pc = "open" /\ slot[r].route = route /\ slot'[r].pc = "deferred"

\* C6: create with an unparsable body answers 400 and leaves the store as it
\* was.
TheoremC6 == [][\A r \in Req : (Handled(r, "create") /\ ~slot[r].input.body.ok) => (store' = store /\ slot'[r].resp.status = StatusBadRequest /\ slot'[r].resp.t = "message")]_vars

\* An authenticated create with an unparsable body was answered 400 while
\* the store held a record.
WitnessC6 == \E r \in Req : slot[r].pc = "done" /\ slot[r].route = "create" /\ slot[r].invoked /\ ~slot[r].input.body.ok /\ slot[r].resp.status = StatusBadRequest /\ Len(store) > 0

\* C7: an authenticated create with a well-formed JSON body and a working
\* store answers 201 with a non-empty identifier, the one generated for this
\* request, which no earlier create returned.
ClaimC7 ==
  [][\A r \in Req : (Handled(r, "create") /\ slot[r].input.body.ok /\ slot'[r].dbOk) =>
      /\ slot'[r].resp.status = StatusCreated
      /\ slot'[r].resp.records[1].id # <<>>
      /\ slot'[r].resp.records[1].id = HexEncode(OidOf(nextOid))
      /\ \A i \in 1..Len(created) : created[i] # slot'[r].resp.records[1].id]_vars

\* C8: with a working store, an authenticated delete of an identifier a
\* stored record has removes that record and answers 200 with the message
\* electrician_deleted; of any other identifier, well-formed or not, it
\* answers 404 and leaves the store as it was.
ClaimC8 ==
  [][\A r \in Req : (Handled(r, "delete") /\ slot'[r].dbOk) =>
      IF IsObjectIdHex(slot[r].input.id) /\ HasId(store, HexDecode(slot[r].input.id))
      THEN /\ store' = SelectSeq(store, LAMBDA e : e.ID # HexDecode(slot[r].input.id))
           /\ slot'[r].resp = [status |-> StatusOK, t |-> "message", message |-> "electrician_deleted", records |-> <<>>]
      ELSE /\ store' = store
           /\ slot'[r].resp.status = StatusNotFound]_vars

Numeric(pm) == pm.present => ~ParseInt(pm.v).err

PageClaimed(st, q) ==
  LET matching == IF q.hint.present THEN SelectSeq(st, LAMBDA e : HasPrefixFold(e.Name, q.hint.v)) ELSE st
      sorted == SortByName(matching)
      skip == IF q.skip.present THEN DecimalValue(q.skip.v) ELSE 0
      limit == IF q.limit.present THEN DecimalValue(q.limit.v) ELSE 10
  IN SubSeq(sorted, skip + 1, Min(skip + limit, Len(sorted)))

\* C9: with a working store and numeric parameters, search returns the
\* records at positions skip+1 .. skip+limit of the matching records sorted
\* by name, skip being the parameter given or 0 and limit the parameter given
\* or 10.
ClaimC9 ==
  [][\A r \in Req : (Handled(r, "search") /\ slot'[r].dbOk /\ Numeric(slot[r].input.q.skip) /\ Numeric(slot[r].input.q.limit)) =>
      (slot'[r].resp.status = StatusOK /\ slot'[r].resp.records = MarshalAll(PageClaimed(store, slot[r].input.q)))]_vars

\* C10: a request's copy of the session is open exactly while its handler
\* runs, so none is open once every request has finished, and no request
\* closes the dialled session.
TheoremC10 ==
  /\ sessions[BaseSession] = "open"
  /\ \A r \in Req : sessions[r] = "open" <=> slot[r].pc \in {"open", "deferred"}
  /\ (\A r \in Req : slot[r].pc \in {"idle", "done"}) => (\A r \in Req : sessions[r] # "open")

\* A request whose handler panicked and one answered a database error have
\* both returned, and both copies are closed.
WitnessC10 ==
  /\ slot[1].pc = "done" /\ slot[1].invoked /\ slot[1].resp = NoResponse /\ sessions[1] = "closed"
  /\ slot[2].pc = "done" /\ slot[2].invoked /\ slot[2].resp.status = StatusInternalServerError /\ sessions[2] = "closed"

====
